---- MODULE Spec2Model ----
(***************************************************************************)
(* endzeit: a terminal countdown to a target date/time.                    *)
(*                                                                         *)
(* Two programs are modelled:                                              *)
(*   - the TUI variant   (src/src/main.rs): gauge, quit key, --execute     *)
(*   - the plain variant (src/main.rs): a progress bar printed per second  *)
(*                                                                         *)
(* Time is counted in milliseconds.  The wall clock and the monotonic      *)
(* clock advance together (one variable, clock).  f64 values that the code *)
(* computes are kept exact: total_seconds is integer valued (it comes from *)
(* an i64), elapsed seconds are elapsed milliseconds over MsPerSec, and a  *)
(* percentage is the rational num/den.                                     *)
(***************************************************************************)
EXTENDS Integers, Sequences, FiniteSets, TLC

VARIABLES
    variant,          \* "tui" | "plain": which program runs
    pc,               \* position of main / App::run
    clock,            \* current time, ms
    target_datetime,  \* ms
    execute_command,  \* "None" | "Some"
    total_seconds,    \* App.total_seconds / main's total_seconds
    start_instant,    \* App.start_instant, ms
    events,           \* crossterm's queue of pending input events
    arrived,          \* number of input events that arrived so far
    qTick,            \* tick in which the oldest pending 'q' arrived, -1 if none
    ticks,            \* number of loop iterations started
    loopState,        \* "RUNNING" | "COMPLETED" | "CANCELLED"
    frame,            \* the last frame handed to the terminal
    app_result,       \* "none" | "Ok" | "Err": what App::run returned
    ioError,          \* "none" | "draw" | "poll" | "read"
    inputError,       \* "none" | "date" | "time" | "hms" | "past"
    terminalMode,     \* "normal" | "raw"
    rawEntered,       \* ratatui::init has run
    command,          \* "none" | "spawn_failed" | "exit_zero" | "exit_nonzero"
    commandRuns,      \* number of times the completion command was started
    report,           \* what handle_completion printed about the command
    exitCode,         \* -1 while the process runs
    elapsed,          \* plain variant: the loop variable
    percentage,       \* plain variant: the printed percentage
    input,            \* pure-function harness: the arguments
    output            \* pure-function harness: the result

vars == <<variant, pc, clock, target_datetime, execute_command, total_seconds,
          start_instant, events, arrived, qTick, ticks, loopState, frame,
          app_result, ioError, inputError, terminalMode, rawEntered, command,
          commandRuns, report, exitCode, elapsed, percentage, input, output>>

progVars == <<variant, pc, clock, target_datetime, execute_command,
              total_seconds, start_instant, events, arrived, qTick, ticks,
              loopState, frame, app_result, ioError, inputError, terminalMode,
              rawEntered, command, commandRuns, report, exitCode, elapsed,
              percentage>>

-----------------------------------------------------------------------------
(* Bounds *)

MaxTargetSec == 2
MaxEvents == 3
MaxOffset == 2
MaxElapsedSteps == 3

-----------------------------------------------------------------------------
(* Program constants *)

MsPerSec == 1000
SleepMs == 333
PollTimeoutMs == 200
PlainSleepMs == 1000

SECONDS_IN_MINUTE == 60
SECONDS_IN_HOUR == 3600
SECONDS_IN_DAY == 86400
SECONDS_IN_WEEK == 604800

-----------------------------------------------------------------------------
(* Arithmetic helpers *)

\* TimeDelta::num_seconds: whole seconds, truncated toward zero
NumSeconds(ms) ==
    IF ms >= 0 THEN ms \div MsPerSec ELSE -((-ms) \div MsPerSec)

\* `f64 as u64` on an integer-valued f64: negative values saturate to 0
AsU64(x) == IF x < 0 THEN 0 ELSE x

\* u64::saturating_sub
SaturatingSub(a, b) == IF a >= b THEN a - b ELSE 0

\* Duration::as_secs: whole seconds of a duration held in ms
AsSecs(ms) == ms \div MsPerSec

-----------------------------------------------------------------------------
(* App's pure methods; elapsedMs stands for self.start_instant.elapsed() *)

\* Decompose with the days taken from the remainder after months instead of
\* the remainder after weeks
DecomposeStaleRemainder(remaining_seconds) ==
    LET years == remaining_seconds \div (SECONDS_IN_DAY * 365)
        remaining_after_years == remaining_seconds % (SECONDS_IN_DAY * 365)
        months == remaining_after_years \div (SECONDS_IN_DAY * 30)
        remaining_after_months == remaining_after_years % (SECONDS_IN_DAY * 30)
        weeks == remaining_after_months \div SECONDS_IN_WEEK
        days == remaining_after_months \div SECONDS_IN_DAY
        remaining_after_days == remaining_after_months % SECONDS_IN_DAY
        hours == remaining_after_days \div SECONDS_IN_HOUR
        remaining_after_hours == remaining_after_days % SECONDS_IN_HOUR
        minutes == remaining_after_hours \div SECONDS_IN_MINUTE
        seconds == remaining_after_hours % SECONDS_IN_MINUTE
    IN  [years |-> years, months |-> months, weeks |-> weeks, days |-> days,
         hours |-> hours, minutes |-> minutes, seconds |-> seconds]

Decompose(remaining_seconds) ==
    LET years == remaining_seconds \div (SECONDS_IN_DAY * 365)
        remaining_after_years == remaining_seconds % (SECONDS_IN_DAY * 365)
        months == remaining_after_years \div (SECONDS_IN_DAY * 30)
        remaining_after_months == remaining_after_years % (SECONDS_IN_DAY * 30)
        weeks == remaining_after_months \div SECONDS_IN_WEEK
        remaining_after_weeks == remaining_after_months % SECONDS_IN_WEEK
        days == remaining_after_weeks \div SECONDS_IN_DAY
        remaining_after_days == remaining_after_weeks % SECONDS_IN_DAY
        hours == remaining_after_days \div SECONDS_IN_HOUR
        remaining_after_hours == remaining_after_days % SECONDS_IN_HOUR
        minutes == remaining_after_hours \div SECONDS_IN_MINUTE
        seconds == remaining_after_hours % SECONDS_IN_MINUTE
    IN  [years |-> years, months |-> months, weeks |-> weeks, days |-> days,
         hours |-> hours, minutes |-> minutes, seconds |-> seconds]

RemainingSeconds(total, elapsedMs) ==
    SaturatingSub(AsU64(total), AsSecs(elapsedMs))

get_remaining_time(total, elapsedMs) ==
    Decompose(RemainingSeconds(total, elapsedMs))

\* elapsed.as_secs_f64() >= total_seconds; total_seconds is integer valued,
\* so the comparison is decided by the whole seconds of elapsed
is_finished(total, elapsedMs) == AsSecs(elapsedMs) >= total

\* get_progress_percentage without the .min(1.0)
ProgressUnclamped(total, elapsedMs) ==
    IF total > 0
    THEN [num |-> elapsedMs, den |-> total * (MsPerSec \div 100)]
    ELSE [num |-> 100, den |-> 1]

\* The f64 result as the exact rational num/den (den > 0):
\* (elapsedMs / MsPerSec) / total * 100 = elapsedMs / (total * MsPerSec / 100)
get_progress_percentage(total, elapsedMs) ==
    IF total > 0
    THEN IF AsSecs(elapsedMs) >= total      \* elapsed / total >= 1.0
         THEN [num |-> 100, den |-> 1]
         ELSE [num |-> elapsedMs, den |-> total * (MsPerSec \div 100)]
    ELSE [num |-> 100, den |-> 1]

\* Comparisons of a rational percentage with 100, without large products
Is100(p) == p.num % 100 = 0 /\ p.num \div 100 = p.den
AtMost100(p) == (p.num + 99) \div 100 <= p.den

\* `f64 as u16`: truncation, saturating at the ends of u16
AsU16(p) ==
    LET t == p.num \div p.den
    IN  IF p.num < 0 THEN 0 ELSE IF t > 65535 THEN 65535 ELSE t

\* One unit of the label: appended when value > 0, whatever was emitted before
PushUnit(time_string, value, suffix) ==
    IF (value > 0 /\ time_string = "") \/ (time_string # "" /\ value > 0)
    THEN time_string \o ToString(value) \o suffix
    ELSE time_string

FormatLabel(tr) ==
    LET s0 == IF tr.years > 0 THEN ToString(tr.years) \o "y " ELSE ""
        s1 == PushUnit(s0, tr.months, "m ")
        s2 == PushUnit(s1, tr.weeks, "w ")
        s3 == PushUnit(s2, tr.days, "d ")
        s4 == PushUnit(s3, tr.hours, "h ")
        s5 == PushUnit(s4, tr.minutes, "m ")
    IN  IF tr.seconds > 0 \/ s5 # ""
        THEN s5 \o ToString(tr.seconds) \o "s"
        ELSE s5

render_gauge(total, elapsedMs) ==
    [percent |-> AsU16(get_progress_percentage(total, elapsedMs)),
     label   |-> FormatLabel(get_remaining_time(total, elapsedMs))]

-----------------------------------------------------------------------------
(* Completion command *)

\* io::Result of execute_file: only a spawn failure is an Err; the
\* ExitStatus that status() returns is dropped
execute_file(outcome) == IF outcome = "spawn_failed" THEN "Err" ELSE "Ok"

\* What handle_completion prints for the result of execute_file
CompletionReport(result) ==
    IF result = "Err" THEN "Failed to execute file" ELSE "none"

-----------------------------------------------------------------------------
(* Input domains *)

Variants == {"tui", "plain"}
StartClocks == {0, 500}
Delays == {0, 500}
SleepJitter == {0, 167}
EventKinds == {"q", "x", "resize"}
CommandOutcomes == {"spawn_failed", "exit_zero", "exit_nonzero"}
LoopPcs == {"draw", "check", "poll", "sleep"}

NoFrame == [n |-> 0, percent |-> 0, label |-> ""]
NoPercentage == [num |-> 0, den |-> 1]
NoInput == [total |-> 0, elapsedMs |-> 0]
NoBreakdown == [years |-> 0, months |-> 0, weeks |-> 0, days |-> 0,
                hours |-> 0, minutes |-> 0, seconds |-> 0]
NoOutput == [op |-> "none", tr |-> NoBreakdown, p |-> NoPercentage,
             g |-> [percent |-> 0, label |-> ""]]

-----------------------------------------------------------------------------
(* State after process start *)

ProgInit ==
    /\ pc = "parse"
    /\ target_datetime = 0
    /\ execute_command = "None"
    /\ total_seconds = 0
    /\ start_instant = 0
    /\ events = <<>>
    /\ arrived = 0
    /\ qTick = -1
    /\ ticks = 0
    /\ loopState = "RUNNING"
    /\ frame = NoFrame
    /\ app_result = "none"
    /\ ioError = "none"
    /\ inputError = "none"
    /\ terminalMode = "normal"
    /\ rawEntered = FALSE
    /\ command = "none"
    /\ commandRuns = 0
    /\ report = "none"
    /\ exitCode = -1
    /\ elapsed = 0
    /\ percentage = NoPercentage

Init ==
    /\ variant \in Variants
    /\ clock \in StartClocks
    /\ ProgInit
    /\ input = NoInput
    /\ output = NoOutput

-----------------------------------------------------------------------------
(* main, up to the countdown (both variants) *)

\* process::exit(code) or a panic before the terminal is touched
ExitEarly(err, code) ==
    /\ inputError' = err
    /\ exitCode' = code
    /\ pc' = "exited"

\* Cli::parse, NaiveDate::parse_from_str, validate_datetime
ParseArgs ==
    /\ pc = "parse"
    /\ \E exec \in {"None", "Some"} :
        /\ (variant = "plain" => exec = "None")
        /\ execute_command' = exec
    /\ \/ /\ ExitEarly("date", 101)
          /\ UNCHANGED target_datetime
       \/ /\ ExitEarly("time", 1)
          /\ UNCHANGED target_datetime
       \/ /\ ExitEarly("hms", 101)
          /\ UNCHANGED target_datetime
       \/ /\ variant = "tui"
          /\ target_datetime' = clock
          /\ pc' = "validate"
          /\ UNCHANGED <<inputError, exitCode>>
       \/ /\ \E s \in 0..MaxTargetSec : target_datetime' = s * MsPerSec
          /\ pc' = "validate"
          /\ UNCHANGED <<inputError, exitCode>>
    /\ UNCHANGED <<variant, clock, total_seconds, start_instant, events,
                   arrived, qTick, ticks, loopState, frame, app_result,
                   ioError, terminalMode, rawEntered, command, commandRuns,
                   report, elapsed, percentage, input, output>>

\* TUI main: the future check
Validate ==
    /\ pc = "validate"
    /\ variant = "tui"
    /\ IF target_datetime <= clock
       THEN ExitEarly("past", 1)
       ELSE /\ pc' = "init"
            /\ UNCHANGED <<inputError, exitCode>>
    /\ UNCHANGED <<variant, clock, target_datetime, execute_command,
                   total_seconds, start_instant, events, arrived, qTick,
                   ticks, loopState, frame, app_result, ioError, terminalMode,
                   rawEntered, command, commandRuns, report, elapsed,
                   percentage, input, output>>

\* ratatui::init; some time passes before App::new reads the clock again
InitTerminal ==
    /\ pc = "init"
    /\ terminalMode' = "raw"
    /\ rawEntered' = TRUE
    /\ \E d \in Delays : clock' = clock + d
    /\ pc' = "new"
    /\ UNCHANGED <<variant, target_datetime, execute_command, total_seconds,
                   start_instant, events, arrived, qTick, ticks, loopState,
                   frame, app_result, ioError, inputError, command,
                   commandRuns, report, exitCode, elapsed, percentage, input,
                   output>>

AppNew ==
    /\ pc = "new"
    /\ total_seconds' = NumSeconds(target_datetime - clock)
    /\ start_instant' = clock
    /\ pc' = "draw"
    /\ UNCHANGED <<variant, clock, target_datetime, execute_command, events,
                   arrived, qTick, ticks, loopState, frame, app_result,
                   ioError, inputError, terminalMode, rawEntered, command,
                   commandRuns, report, exitCode, elapsed, percentage, input,
                   output>>

-----------------------------------------------------------------------------
(* App::run (TUI variant) *)

Elapsed == clock - start_instant

\* main with `run(terminal)?` ahead of the restore: an Err leaves at once
ReturnFromRunPropagating(result) ==
    /\ app_result' = result
    /\ pc' = IF result = "Err" THEN "exit" ELSE "restore"

\* main, after run returns: the result is kept, the terminal is restored next
ReturnFromRun(result) ==
    /\ app_result' = result
    /\ pc' = "restore"

\* A `?` on a failed terminal call: run returns the error at once
Abort(call) ==
    /\ ioError' = call
    /\ ReturnFromRun("Err")

\* terminal.draw(...)?
Draw ==
    /\ pc = "draw"
    /\ ticks' = ticks + 1
    /\ \/ /\ Abort("draw")
          /\ UNCHANGED frame
       \/ /\ frame' = [n       |-> frame.n + 1,
                       percent |-> render_gauge(total_seconds, Elapsed).percent,
                       label   |-> render_gauge(total_seconds, Elapsed).label]
          /\ pc' = "check"
          /\ UNCHANGED <<app_result, ioError>>
    /\ UNCHANGED <<variant, clock, target_datetime, execute_command,
                   total_seconds, start_instant, events, arrived, qTick,
                   loopState, inputError, terminalMode, rawEntered, command,
                   commandRuns, report, exitCode, elapsed, percentage, input,
                   output>>

\* if self.is_finished() { break; }
CheckFinished ==
    /\ pc = "check"
    /\ IF is_finished(total_seconds, Elapsed)
       THEN /\ loopState' = "COMPLETED"
            /\ pc' = "completion"
       ELSE /\ pc' = "poll"
            /\ UNCHANGED loopState
    /\ UNCHANGED <<variant, clock, target_datetime, execute_command,
                   total_seconds, start_instant, events, arrived, qTick,
                   ticks, frame, app_result, ioError, inputError,
                   terminalMode, rawEntered, command, commandRuns, report,
                   exitCode, elapsed, percentage, input, output>>

\* The value of should_quit once event::read has returned ev
IsQuitKey(ev) == ev = "q"

\* if self.should_quit()? { break; }
\* At most one event is read per call; a non-key event and any key other
\* than 'q' give false.
ShouldQuit ==
    /\ pc = "poll"
    /\ \/ /\ Abort("poll")
          /\ UNCHANGED <<clock, events, qTick, loopState>>
       \/ /\ events # <<>>
          /\ Abort("read")
          /\ UNCHANGED <<clock, events, qTick, loopState>>
       \/ /\ events # <<>>
          /\ events' = Tail(events)
          /\ IF IsQuitKey(Head(events))
             THEN /\ loopState' = "CANCELLED"
                  /\ qTick' = -1
                  /\ pc' = "completion"
             ELSE /\ pc' = "sleep"
                  /\ UNCHANGED <<loopState, qTick>>
          /\ UNCHANGED <<clock, app_result, ioError>>
       \/ /\ events = <<>>
          /\ clock' = clock + PollTimeoutMs
          /\ pc' = "sleep"
          /\ UNCHANGED <<events, qTick, loopState, app_result, ioError>>
    /\ UNCHANGED <<variant, target_datetime, execute_command, total_seconds,
                   start_instant, arrived, ticks, frame, inputError,
                   terminalMode, rawEntered, command, commandRuns, report,
                   exitCode, elapsed, percentage, input, output>>

\* thread::sleep(Duration::from_millis(333)): at least that long
Sleep ==
    /\ pc = "sleep"
    /\ \E j \in SleepJitter : clock' = clock + SleepMs + j
    /\ pc' = "draw"
    /\ UNCHANGED <<variant, target_datetime, execute_command, total_seconds,
                   start_instant, events, arrived, qTick, ticks, loopState,
                   frame, app_result, ioError, inputError, terminalMode,
                   rawEntered, command, commandRuns, report, exitCode,
                   elapsed, percentage, input, output>>

\* self.handle_completion(); Ok(())  -- reached from either break
HandleCompletion ==
    /\ pc = "completion"
    /\ IF execute_command = "Some"
       THEN \E outcome \in CommandOutcomes :
               /\ command' = outcome
               /\ commandRuns' = commandRuns + 1
               /\ report' = CompletionReport(execute_file(outcome))
       ELSE UNCHANGED <<command, commandRuns, report>>
    /\ ReturnFromRun("Ok")
    /\ UNCHANGED <<variant, clock, target_datetime, execute_command,
                   total_seconds, start_instant, events, arrived, qTick,
                   ticks, loopState, frame, ioError, inputError,
                   terminalMode, rawEntered, exitCode, elapsed, percentage,
                   input, output>>

\* ratatui::restore()
Restore ==
    /\ pc = "restore"
    /\ terminalMode' = "normal"
    /\ pc' = "exit"
    /\ UNCHANGED <<variant, clock, target_datetime, execute_command,
                   total_seconds, start_instant, events, arrived, qTick,
                   ticks, loopState, frame, app_result, ioError, inputError,
                   rawEntered, command, commandRuns, report, exitCode,
                   elapsed, percentage, input, output>>

\* main that drops app_result and returns Ok(())
ExitStatusAlwaysOk(result) == 0

\* main returns app_result: Ok(()) exits 0, Err exits 1
ExitStatus(result) == IF result = "Ok" THEN 0 ELSE 1

Exit ==
    /\ pc = "exit"
    /\ exitCode' = ExitStatus(app_result)
    /\ pc' = "exited"
    /\ UNCHANGED <<variant, clock, target_datetime, execute_command,
                   total_seconds, start_instant, events, arrived, qTick,
                   ticks, loopState, frame, app_result, ioError, inputError,
                   terminalMode, rawEntered, command, commandRuns, report,
                   elapsed, percentage, input, output>>

\* The user (or the terminal) produces an input event while the loop runs
EventArrives ==
    /\ pc \in LoopPcs
    /\ arrived < MaxEvents
    /\ \E ev \in EventKinds :
        /\ events' = Append(events, ev)
        /\ qTick' = IF ev = "q" /\ qTick = -1 THEN ticks ELSE qTick
    /\ arrived' = arrived + 1
    /\ UNCHANGED <<variant, pc, clock, target_datetime, execute_command,
                   total_seconds, start_instant, ticks, loopState, frame,
                   app_result, ioError, inputError, terminalMode, rawEntered,
                   command, commandRuns, report, exitCode, elapsed,
                   percentage, input, output>>

-----------------------------------------------------------------------------
(* Plain variant: main from the future check on *)

\* elapsed as f64 / total_seconds as f64 * 100.0; 0/0 is NaN (den = 0)
PlainPercentage(e, total) == [num |-> e * 100, den |-> total]

IsNaN(p) == p.den = 0 /\ p.num = 0

PlainValidate ==
    /\ pc = "validate"
    /\ variant = "plain"
    /\ IF target_datetime <= clock
       THEN /\ ExitEarly("past", 1)
            /\ UNCHANGED <<total_seconds, elapsed>>
       ELSE /\ total_seconds' = NumSeconds(target_datetime - clock)
            /\ elapsed' = 0
            /\ pc' = "loop"
            /\ UNCHANGED <<inputError, exitCode>>
    /\ UNCHANGED <<variant, clock, target_datetime, execute_command,
                   start_instant, events, arrived, qTick, ticks, loopState,
                   frame, app_result, ioError, terminalMode, rawEntered,
                   command, commandRuns, report, percentage, input, output>>

\* One iteration of `for elapsed in 0..=total_seconds`
PlainIterate ==
    /\ pc = "loop"
    /\ elapsed <= total_seconds
    /\ percentage' = PlainPercentage(elapsed, total_seconds)
    /\ ticks' = ticks + 1
    /\ clock' = clock + PlainSleepMs
    /\ elapsed' = elapsed + 1
    /\ UNCHANGED <<variant, pc, target_datetime, execute_command,
                   total_seconds, start_instant, events, arrived, qTick,
                   loopState, frame, app_result, ioError, inputError,
                   terminalMode, rawEntered, command, commandRuns, report,
                   exitCode, input, output>>

\* println!("\nEndzeit reached!") and the end of main
PlainDone ==
    /\ pc = "loop"
    /\ elapsed > total_seconds
    /\ exitCode' = 0
    /\ pc' = "exited"
    /\ UNCHANGED <<variant, clock, target_datetime, execute_command,
                   total_seconds, start_instant, events, arrived, qTick,
                   ticks, loopState, frame, app_result, ioError, inputError,
                   terminalMode, rawEntered, command, commandRuns, report,
                   elapsed, percentage, input, output>>

-----------------------------------------------------------------------------
(* Specification of the two programs *)

Next ==
    \/ ParseArgs
    \/ Validate
    \/ InitTerminal
    \/ AppNew
    \/ Draw
    \/ CheckFinished
    \/ ShouldQuit
    \/ Sleep
    \/ HandleCompletion
    \/ Restore
    \/ Exit
    \/ EventArrives
    \/ PlainValidate
    \/ PlainIterate
    \/ PlainDone

Spec == Init /\ [][Next]_vars

-----------------------------------------------------------------------------
(* Harness for App's pure methods: Init draws (total_seconds, elapsed),     *)
(* one action per method stores its result in output.                       *)

SampleSeconds ==
    {0, 7, 57, 60, 100, 3597, 3600, 86397, 86400, 90000, 173103, 604797,
     604800, 2591997, 2592000, 5011200, 31535997, 31536000, 34732800,
     65836803}

PureTotals ==
    {s + o : s \in SampleSeconds, o \in 0..MaxOffset}
        \cup {-1 - o : o \in 0..MaxOffset}

PureElapsed ==
    {k * 50 * MsPerSec + f : k \in 0..MaxElapsedSteps, f \in {0, 500}}

PureInit ==
    /\ variant = "tui"
    /\ clock = 0
    /\ ProgInit
    /\ input \in [total : PureTotals, elapsedMs : PureElapsed]
    /\ output = NoOutput

CallGetRemainingTime ==
    /\ output.op = "none"
    /\ output' = [NoOutput EXCEPT
                    !.op = "get_remaining_time",
                    !.tr = get_remaining_time(input.total, input.elapsedMs)]
    /\ UNCHANGED <<progVars, input>>

CallGetProgressPercentage ==
    /\ output.op = "none"
    /\ output' = [NoOutput EXCEPT
                    !.op = "get_progress_percentage",
                    !.p = get_progress_percentage(input.total, input.elapsedMs)]
    /\ UNCHANGED <<progVars, input>>

CallRenderGauge ==
    /\ output.op = "none"
    /\ output' = [NoOutput EXCEPT
                    !.op = "render_gauge",
                    !.tr = get_remaining_time(input.total, input.elapsedMs),
                    !.g = render_gauge(input.total, input.elapsedMs)]
    /\ UNCHANGED <<progVars, input>>

PureNext ==
    \/ CallGetRemainingTime
    \/ CallGetProgressPercentage
    \/ CallRenderGauge

SpecPure == PureInit /\ [][PureNext]_vars

-----------------------------------------------------------------------------
(* Claims checked under Spec (the two programs) *)

\* C1: when the loop ends CANCELLED (quit key seen by the input poll), the
\* completion handler is skipped: the --execute command is never run.
CancelSkipsCommand ==
    loopState = "CANCELLED" => commandRuns = 0

\* C3: once elapsed has reached the total the loop is COMPLETED, and there
\* the percentage is exactly 100, the remaining breakdown is all-zero and
\* the label rendered for it is "0s".
CompletedShowsZeroSeconds ==
    loopState = "COMPLETED" =>
        /\ Is100(get_progress_percentage(total_seconds, Elapsed))
        /\ get_remaining_time(total_seconds, Elapsed) = NoBreakdown
        /\ render_gauge(total_seconds, Elapsed).label = "0s"
        /\ frame.label = "0s"

\* C6: once ratatui::init has put the terminal into raw mode, the process
\* never exits (completion, cancellation or a failed draw/poll/read) without
\* the terminal having been put back into normal mode.
TerminalRestoredOnExit ==
    (rawEntered /\ pc = "exited") => terminalMode = "normal"

C6Witness ==
    /\ pc = "exited"
    /\ rawEntered
    /\ ioError = "poll"
    /\ ticks > 1
    /\ terminalMode = "normal"

\* C7: while the loop is RUNNING, a pending 'q' is acknowledged no later than
\* the input-poll step of the tick after the one it arrived in, whatever
\* other events arrived before it: there is no state in which that poll
\* step is over, the loop still runs and the 'q' is still waiting.
QuitAcknowledgedWithinOneTick ==
    (pc \in LoopPcs /\ loopState = "RUNNING" /\ qTick # -1) =>
        \/ ticks <= qTick
        \/ ticks = qTick + 1 /\ pc # "sleep"

\* C8: when the completion command is run, its outcome is always reported:
\* a spawn failure and a non-zero exit status as failures, a zero exit
\* status as success.
CommandOutcomeReported ==
    /\ command = "spawn_failed" => report = "Failed to execute file"
    /\ command = "exit_nonzero" => report \notin {"none", "success"}
    /\ command = "exit_zero" => report = "success"

\* C9: the exit status follows from how the run ends: 0 when the loop ends
\* COMPLETED or CANCELLED (whatever the completion command did), non-zero
\* when the input is invalid (and then the loop never started) or when a
\* draw, poll or read call fails; after such a failure run returns at that
\* call: no further tick, frame or event read.
ExitStatusAtEnd ==
    pc = "exited" =>
        /\ exitCode >= 0
        /\ (variant = "tui" /\ loopState \in {"COMPLETED", "CANCELLED"})
              => exitCode = 0
        /\ (variant = "tui" /\ exitCode = 0)
              => loopState \in {"COMPLETED", "CANCELLED"}
        /\ inputError # "none" => (exitCode # 0 /\ ticks = 0 /\ ~rawEntered)
        /\ ioError # "none" => exitCode # 0

FailedCallAborts ==
    /\ (ioError = "none" /\ ioError' # "none") =>
          (pc' = "restore" /\ app_result' = "Err" /\ loopState' = "RUNNING")
    /\ ioError # "none" =>
          (ticks' = ticks /\ frame' = frame /\ events' = events
              /\ ioError' = ioError /\ commandRuns' = commandRuns)

ExitStatusContract == []ExitStatusAtEnd /\ [][FailedCallAborts]_vars

C9Witness ==
    /\ pc = "exited"
    /\ ioError = "read"
    /\ exitCode = 1
    /\ ticks > 1

\* C10: in both variants, once the deadline has passed the future check and
\* the countdown has its total, the total is at least 1 whole second, and
\* the plain variant never divides by a total of 0 (a NaN percentage).
TotalAtLeastOneSecond ==
    /\ (variant = "tui" /\ pc \in LoopPcs) => total_seconds >= 1
    /\ (variant = "plain" /\ pc = "loop") => total_seconds >= 1
    /\ ~IsNaN(percentage)

-----------------------------------------------------------------------------
(* Claims checked under SpecPure (App's pure methods) *)

\* The label as the formatting policy states it: nothing before the first
\* non-zero unit, every unit from there on, zero or not
PolicyUnit(time_string, value, suffix) ==
    IF value > 0 \/ time_string # ""
    THEN time_string \o ToString(value) \o suffix
    ELSE time_string

PolicyLabel(tr) ==
    LET s0 == PolicyUnit("", tr.years, "y ")
        s1 == PolicyUnit(s0, tr.months, "m ")
        s2 == PolicyUnit(s1, tr.weeks, "w ")
        s3 == PolicyUnit(s2, tr.days, "d ")
        s4 == PolicyUnit(s3, tr.hours, "h ")
        s5 == PolicyUnit(s4, tr.minutes, "m ")
    IN  PolicyUnit(s5, tr.seconds, "s")

\* C2: the label starts at the first non-zero unit and from there on every
\* smaller unit is rendered, zero or not (2d 0h 5m 3s); larger units are
\* suppressed (7s).
LabelShowsZeroUnitsAfterFirst ==
    (output.op = "render_gauge" /\ output.tr # NoBreakdown) =>
        /\ output.g.label = PolicyLabel(output.tr)
        /\ (output.tr = [NoBreakdown EXCEPT !.days = 2, !.minutes = 5,
                                            !.seconds = 3])
              => output.g.label = "2d 0h 5m 3s"
        /\ (output.tr = [NoBreakdown EXCEPT !.seconds = 7])
              => output.g.label = "7s"

\* The remaining seconds R of an input, from total and elapsed
InputRemaining ==
    IF input.total <= input.elapsedMs \div 1000
    THEN 0
    ELSE input.total - input.elapsedMs \div 1000

\* C4: get_remaining_time is the successive divide/modulo by
\* YEAR = 365 days, MONTH = 30 days, WEEK, DAY, HOUR, MINUTE, largest first;
\* so the fields weighted by their units add up to R, and seconds < 60,
\* minutes < 60, hours < 24, days < 7; R = 90000 is 1 day 1 hour.
DecompositionExact ==
    output.op = "get_remaining_time" =>
        LET R == InputRemaining
            tr == output.tr
            afterY == R % 31536000
            afterMo == afterY % 2592000
            afterW == afterMo % 604800
            afterD == afterW % 86400
            afterH == afterD % 3600
        IN  /\ tr.years = R \div 31536000
            /\ tr.months = afterY \div 2592000
            /\ tr.weeks = afterMo \div 604800
            /\ tr.days = afterW \div 86400
            /\ tr.hours = afterD \div 3600
            /\ tr.minutes = afterH \div 60
            /\ tr.seconds = afterH % 60
            /\ tr.years * 31536000 + tr.months * 2592000
                  + tr.weeks * 604800 + tr.days * 86400 + tr.hours * 3600
                  + tr.minutes * 60 + tr.seconds = R
            /\ tr.seconds \in 0..59
            /\ tr.minutes \in 0..59
            /\ tr.hours \in 0..23
            /\ tr.days \in 0..6
            /\ tr.weeks >= 0 /\ tr.months >= 0 /\ tr.years >= 0
            /\ R = 90000 =>
                  tr = [NoBreakdown EXCEPT !.days = 1, !.hours = 1]

C4Witness ==
    /\ output.op = "get_remaining_time"
    /\ InputRemaining = 65836803 - 50
    /\ output.tr = [years |-> 2, months |-> 1, weeks |-> 0, days |-> 1,
                    hours |-> 23, minutes |-> 59, seconds |-> 13]

\* C5: get_progress_percentage is in [0,100]: 100 when total <= 0, else
\* min(elapsed/total, 1) * 100 (0 at elapsed = 0, 100 at elapsed >= total);
\* the percent handed to the gauge never exceeds 100.
PercentageBounded ==
    /\ output.op = "get_progress_percentage" =>
          LET p == output.p
              t == input.total
              e == input.elapsedMs
          IN  /\ p.den > 0
              /\ 0 <= p.num
              /\ AtMost100(p)
              /\ t <= 0 => Is100(p)
              /\ (t > 0 /\ e = 0) => p.num = 0
              /\ (t > 0 /\ e \div 1000 >= t) => Is100(p)
              \* p = (e / 1000) / t * 100, where the products stay small
              /\ (t > 0 /\ t <= 1000 /\ e < t * 1000)
                    => p.num * 10 * t = e * p.den
    /\ output.op = "render_gauge" => output.g.percent \in 0..100

C5Witness ==
    /\ output.op = "get_progress_percentage"
    /\ input.total = 100
    /\ input.elapsedMs = 150000
    /\ Is100(output.p)

====
